---- MODULE Spec2Model ----
(***************************************************************************)
(* A model of agent/views.py: the DevAnalystView.post handler and its two  *)
(* collaborators get_github_data and get_gemini_analysis.                  *)
(*                                                                         *)
(* Text that the handler inspects character by character (the command     *)
(* text of a message part) is a sequence of one-character strings.         *)
(* Text that is only assembled and passed on (error messages, the model's  *)
(* reply) is a sequence of segments, each segment a TLA+ string.           *)
(***************************************************************************)
EXTENDS Integers, Sequences, FiniteSets, TLC

(***************************************************************************)
(* Bounds of the model.                                                    *)
(***************************************************************************)
\* the longest `parts` list of a request
MaxParts == 2

(***************************************************************************)
(* Python str operations used by post: strip, lower, startswith, replace.  *)
(***************************************************************************)
UPPER == <<"A","B","C","D","E","F","G","H","I","J","K","L","M",
           "N","O","P","Q","R","S","T","U","V","W","X","Y","Z">>
LOWER == <<"a","b","c","d","e","f","g","h","i","j","k","l","m",
           "n","o","p","q","r","s","t","u","v","w","x","y","z">>
WHITESPACE == {" ", "\t", "\n", "\r"}

LowerChar(c) ==
    IF \E i \in DOMAIN UPPER : UPPER[i] = c
    THEN LOWER[CHOOSE i \in DOMAIN UPPER : UPPER[i] = c]
    ELSE c

\* str.lower()
Lower(s) == [i \in 1..Len(s) |-> LowerChar(s[i])]

\* str.strip(): leading and trailing whitespace removed
Strip(s) ==
    LET keep == {i \in 1..Len(s) : s[i] \notin WHITESPACE}
    IN  IF keep = {} THEN <<>>
        ELSE LET first == CHOOSE i \in keep : \A j \in keep : i <= j
                 last  == CHOOSE i \in keep : \A j \in keep : j <= i
             IN  SubSeq(s, first, last)

\* str.startswith(p)
StartsWith(s, p) == Len(s) >= Len(p) /\ SubSeq(s, 1, Len(p)) = p

\* str.replace(old, ""): every non-overlapping occurrence of old, scanning
\* from the left, is removed
RECURSIVE ReplaceAll(_, _)
ReplaceAll(s, old) ==
    IF s = <<>> THEN <<>>
    ELSE IF StartsWith(s, old) THEN ReplaceAll(SubSeq(s, Len(old) + 1, Len(s)), old)
    ELSE <<Head(s)>> \o ReplaceAll(Tail(s), old)

\* the body of one `if user_text.startswith(p): user_text = ...` statement
StripPrefix(s, p) == IF StartsWith(s, p) THEN Strip(ReplaceAll(s, p)) ELSE s

\* "gbollybambam "
PREFIX_GBOLLYBAMBAM == <<"g","b","o","l","l","y","b","a","m","b","a","m"," ">>
\* "@devanalyst "
PREFIX_DEVANALYST == <<"@","d","e","v","a","n","a","l","y","s","t"," ">>

\* a variant of GREETINGS that forgets "hi"
GREETINGS_WithoutHi == {<<"h","e","l","p">>, <<>>}

\* the keywords of the `elif user_text in [...]` test
GREETINGS == {<<"h","e","l","p">>, <<"h","i">>, <<>>}


(***************************************************************************)
(* The inbound request body.  A JSON value is described by its shape:      *)
(* "absent" (the key is missing), "null" (a falsy value that is not an     *)
(* object: null, 0, "", []), "scalar" (a truthy value that is not an       *)
(* object: a number, a non-empty string or list) and "object"/"list".      *)
(***************************************************************************)
Absent == "<absent>"
PyNone == "<None>"
NoExc  == "<no exception>"

W_OCTOCAT == <<"O","c","t","o","c","a","t">>
W_HI      == <<"H","i">>
W_HELP    == <<" ","h","e","l","p"," ">>
W_BLANK   == <<" ">>
W_MENTION == <<"@","D","e","v","A","n","a","l","y","s","t"," ">>

\* the `text` strings a part may carry
Texts ==
    { "", " ", " help ", "Octocat",
      "gbollybambam @DevAnalyst Hi",
      "gbollybambam Octocat gbollybambam Hi" }

\* the characters of a `text` string
Chars(text) ==
    CASE text = ""        -> <<>>
      [] text = " "       -> W_BLANK
      [] text = " help "  -> W_HELP
      [] text = "Octocat" -> W_OCTOCAT
      [] text = "gbollybambam @DevAnalyst Hi" ->
            PREFIX_GBOLLYBAMBAM \o W_MENTION \o W_HI
      [] text = "gbollybambam Octocat gbollybambam Hi" ->
            PREFIX_GBOLLYBAMBAM \o W_OCTOCAT \o W_BLANK \o PREFIX_GBOLLYBAMBAM \o W_HI

\* the value under a part's `text` key: missing or null, a number, a string
TextVals ==
    { [t |-> "null", s |-> ""], [t |-> "number", s |-> ""] }
    \cup { [t |-> "str", s |-> x] : x \in Texts }

TextOf(x) == [t |-> "str", s |-> x]

\* the entries of `parts`: objects with `kind` and `text`, or something that
\* is not an object
Parts ==
    { [shape |-> "object", kind |-> "text", text |-> v] : v \in TextVals }
    \cup { [shape |-> "object", kind |-> "data", text |-> TextOf("Octocat")],
           [shape |-> "scalar", kind |-> Absent, text |-> [t |-> "null", s |-> ""]] }

PartLists == UNION { [1..n -> Parts] : n \in 0..MaxParts }

RpcIds     == {Absent, "42"}
TaskIds    == {Absent, "t1"}
ContextIds == {Absent, "c1"}

Req(body, id, params, contextId, message, taskId, parts, partList) ==
    [body |-> body, id |-> id, params |-> params, contextId |-> contextId,
     message |-> message, taskId |-> taskId, parts |-> parts, partList |-> partList]

Requests ==
    { Req(b, Absent, "absent", Absent, "absent", Absent, "absent", <<>>) :
        b \in {"invalid", "scalar"} }
    \cup { Req("object", i, p, Absent, "absent", Absent, "absent", <<>>) :
        i \in RpcIds, p \in {"absent", "null", "scalar"} }
    \cup { Req("object", i, "object", c, m, Absent, "absent", <<>>) :
        i \in RpcIds, c \in ContextIds, m \in {"absent", "null", "scalar"} }
    \cup { Req("object", i, "object", c, "object", t, p, <<>>) :
        i \in RpcIds, c \in ContextIds, t \in TaskIds, p \in {"absent", "null"} }
    \cup { Req("object", i, "object", c, "object", t, "list", l) :
        i \in RpcIds, c \in ContextIds, t \in TaskIds, l \in PartLists }

\* what Python sees in the locals `params` and `message` (lines 116-117)
ParamsIsDict(req)   == req.params \in {"absent", "object"}
ParamsTruthy(req)   ==
    \/ req.params = "scalar"
    \/ req.params = "object" /\ (req.contextId # Absent \/ req.message # "absent")
MessageIsDict(req)  == req.message \in {"absent", "object"}
MessageTruthy(req)  ==
    \/ req.message = "scalar"
    \/ req.message = "object" /\ (req.taskId # Absent \/ req.parts # "absent")
\* message.get('parts', [])
PartsOf(req) == IF req.parts = "list" THEN req.partList ELSE <<>>

\* Python truth of the value under `text`
TextTruthy(v) == v.t = "number" \/ (v.t = "str" /\ v.s # "")

\* a variant of ScanParts that keeps the first text found instead of the last
RECURSIVE ScanParts_FirstMatch(_, _)
ScanParts_FirstMatch(parts, text) ==
    IF parts = <<>> THEN [exc |-> NoExc, user_text |-> text]
    ELSE LET part == Head(parts) IN
         IF part.shape # "object"
         THEN [exc |-> "AttributeError", user_text |-> text]
         ELSE IF part.kind = "text" /\ TextTruthy(part.text)
         THEN IF part.text.t # "str"
              THEN [exc |-> "AttributeError", user_text |-> text]
              ELSE ScanParts_FirstMatch(Tail(parts),
                      IF text = <<>> THEN Lower(Strip(Chars(part.text.s))) ELSE text)
         ELSE ScanParts_FirstMatch(Tail(parts), text)

\* lines 121-125: the loop over parts; stops at the first part that raises
RECURSIVE ScanParts(_, _)
ScanParts(parts, text) ==
    IF parts = <<>> THEN [exc |-> NoExc, user_text |-> text]
    ELSE LET part == Head(parts) IN
         IF part.shape # "object"
         THEN [exc |-> "AttributeError", user_text |-> text]
         ELSE IF part.kind = "text" /\ TextTruthy(part.text)
         THEN IF part.text.t # "str"
              THEN [exc |-> "AttributeError", user_text |-> text]
              ELSE ScanParts(Tail(parts), Lower(Strip(Chars(part.text.s))))
         ELSE ScanParts(Tail(parts), text)

\* lines 114-125: parse and extract; `bound` is the set of locals assigned
\* when the block is left, `exc` the exception that leaves it
TryParse(req) ==
    IF req.body = "invalid"
    THEN [exc |-> "JSONDecodeError", bound |-> {}, user_text |-> <<>>]
    ELSE IF req.body # "object"
    THEN [exc |-> "AttributeError", bound |-> {"data"}, user_text |-> <<>>]
    ELSE IF ~ParamsIsDict(req)
    THEN [exc |-> "AttributeError", bound |-> {"data", "params"}, user_text |-> <<>>]
    ELSE IF ~MessageIsDict(req)
    THEN [exc |-> "AttributeError", bound |-> {"data", "params", "message"},
          user_text |-> <<>>]
    ELSE IF req.parts = "null"
    THEN [exc |-> "TypeError", bound |-> {"data", "params", "message", "parts"},
          user_text |-> <<>>]
    ELSE LET scan == ScanParts(PartsOf(req), <<>>) IN
         IF scan.exc # NoExc
         THEN [exc |-> scan.exc, bound |-> {"data", "params", "message", "parts"},
               user_text |-> scan.user_text]
         ELSE [exc |-> NoExc, bound |-> {"data", "params", "message", "parts"},
               user_text |-> scan.user_text]

\* a variant of Dispatch that tests the keyword list, which holds "", first
Dispatch_GreetingFirst(text) ==
    IF text \in GREETINGS THEN "greeting"
    ELSE IF text = <<>> THEN "invalid"
    ELSE "fetch"

\* lines 134-141: which branch of the dispatch the command text takes
Dispatch(text) ==
    IF text = <<>> THEN "invalid"
    ELSE IF text \in GREETINGS THEN "greeting"
    ELSE "fetch"

\* str(uuid.uuid4()): the n-th identifier minted while serving the request
Uuid(n) == "uuid-" \o ToString(n)

(***************************************************************************)
(* Message texts, as sequences of segments.                                *)
(***************************************************************************)
VALIDATION_ERROR ==
    << "**Error:** Invalid request. Please provide a GitHub username immediately after @DevAnalyst." >>
MISCONFIGURED == << "Error: GEMINI_API_KEY is not set. The server is misconfigured." >>
UNEXPECTED_FORMAT == << "Error: The AI analysis returned an unexpected format." >>
CRITICAL_PREFIX ==
    "I'm sorry, I ran into a critical server error. Please tell the admin: "

\* github_data values: {} , a list of summaries, or the error record
EmptyDict == [kind |-> "dict", repos |-> <<>>, error |-> "", details |-> ""]

\* a command text as one segment
RECURSIVE Str(_)
Str(chars) == IF chars = <<>> THEN "" ELSE Head(chars) \o Str(Tail(chars))

\* does the segment occur in the text
Contains(text, segment) == \E i \in DOMAIN text : text[i] = segment

(***************************************************************************)
(* The repository-listing service, as get_github_data sees it: the call    *)
(* fails with a RequestException (no connection, or a non-2xx status), or  *)
(* it answers 2xx with a JSON array of repository objects.                 *)
(***************************************************************************)
REPO_FULL ==
    [name |-> "Hello-World", stargazers_count |-> "5", forks_count |-> "2",
     language |-> "C", description |-> "My first repository", fork |-> "false"]
\* an upstream record with keys missing: repo.get yields None for them
REPO_SPARSE ==
    [name |-> "dotfiles", stargazers_count |-> "0", forks_count |-> PyNone,
     language |-> PyNone, description |-> PyNone, fork |-> "true"]

GithubResponses ==
    { [kind |-> "ConnectionError", status |-> "none", repos |-> <<>>],
      [kind |-> "HTTPError", status |-> "404 Client Error: Not Found", repos |-> <<>>],
      [kind |-> "ok", status |-> "200", repos |-> <<>>],
      [kind |-> "ok", status |-> "200", repos |-> <<REPO_FULL, REPO_SPARSE>>] }

\* lines 52-61: the projection of one upstream record
Simplify(repo) ==
    [name |-> repo.name, stars |-> repo.stargazers_count, forks |-> repo.forks_count,
     language |-> repo.language, description |-> repo.description, is_fork |-> repo.fork]

\* lines 47-66: the value get_github_data returns for an upstream answer
GithubResult(username, answer) ==
    IF answer.kind = "ok"
    THEN [kind |-> "list",
          repos |-> [i \in 1..Len(answer.repos) |-> Simplify(answer.repos[i])],
          error |-> "", details |-> ""]
    ELSE [kind |-> "dict", repos |-> <<>>,
          error |-> "Could not fetch GitHub data for '" \o Str(username) \o "'.",
          details |-> answer.status]

(***************************************************************************)
(* The language-model endpoint, as get_gemini_analysis sees it.            *)
(***************************************************************************)
\* what a reply of the model may say: it is free text, which may or may not
\* repeat an error record found in the prompt
ModelReplies(username, data) ==
    { << "**Analysis for:** ", Str(username), " ..." >> }
    \cup (IF data.error # ""
          THEN { << "**Analysis for:** ", Str(username), " ...", data.error >> }
          ELSE {})

\* the outcomes of requests.post / raise_for_status / response.json() and of
\* the lookup of candidates[0].content.parts[0].text:
\*   ConnectionError  a RequestException that carries no response
\*   HTTPError        a non-2xx answer; the exception carries the response
\*   InvalidJSON      a 2xx body that is not JSON; `lib` tells what the
\*                    installed requests raises: "RequestException" (a
\*                    RequestException without response) or "ValueError"
\*   MissingPath      KeyError or IndexError on the lookup
\*   WrongType        TypeError on the lookup (a null or scalar on the path)
\*   ok               the text is found
GeminiResponses(username, data) ==
    { [kind |-> k, lib |-> "", text |-> <<>>] :
        k \in {"ConnectionError", "HTTPError", "MissingPath", "WrongType"} }
    \cup { [kind |-> "InvalidJSON", lib |-> l, text |-> <<>>] :
        l \in {"RequestException", "ValueError"} }
    \cup { [kind |-> "ok", lib |-> "", text |-> t] : t \in ModelReplies(username, data) }

\* lines 88-104: what get_gemini_analysis does with an answer: the string it
\* returns, or the exception that leaves it (raised inside the first
\* except clause by e.response.text when e.response is None)
GeminiResult(answer) ==
    CASE answer.kind = "ok" ->
           [exc |-> NoExc, text |-> answer.text]
      [] answer.kind = "HTTPError" ->
           [exc |-> NoExc,
            text |-> << "Error: The AI analysis API failed. Details: ", "<response body>" >>]
      [] answer.kind = "ConnectionError" ->
           [exc |-> "AttributeError", text |-> <<>>]
      [] answer.kind = "InvalidJSON" /\ answer.lib = "RequestException" ->
           [exc |-> "AttributeError", text |-> <<>>]
      [] answer.kind = "InvalidJSON" /\ answer.lib = "ValueError" ->
           [exc |-> NoExc,
            text |-> << "Error: The AI analysis failed. Details: ", "Expecting value" >>]
      [] answer.kind = "MissingPath" ->
           [exc |-> NoExc, text |-> UNEXPECTED_FORMAT]
      [] answer.kind = "WrongType" ->
           [exc |-> NoExc,
            text |-> << "Error: The AI analysis failed. Details: ",
                        "'NoneType' object is not subscriptable" >>]

\* the values os.environ.get("GEMINI_API_KEY") may give at import (line 14)
ApiKeys == {PyNone, "", "AIza-key"}
\* a variant of KeyMissing that tests `GEMINI_API_KEY is None`
KeyMissing_OnlyNone(key) == key = PyNone

\* `not GEMINI_API_KEY` (line 70)
KeyMissing(key) == key \in {PyNone, ""}

(***************************************************************************)
(* The response.                                                           *)
(***************************************************************************)
NoResponse == [status |-> 0, body |-> <<>>]

\* lines 148-152 and 175-179
AgentMessage(text, messageId, task_id) ==
    [kind |-> "message", role |-> "agent",
     parts |-> << [kind |-> "text", text |-> text] >>,
     messageId |-> messageId, taskId |-> task_id]

\* lines 153-159 and 180-185
Envelope(rpc, task_id, context_id, message, artifacts) ==
    [jsonrpc |-> "2.0", id |-> rpc,
     result |-> [id |-> task_id, contextId |-> context_id,
                 status |-> [state |-> "completed", timestamp |-> "utcnow",
                             message |-> message],
                 artifacts |-> artifacts, history |-> <<>>, kind |-> "task"]]

\* line 156
Artifact(artifactId, data) ==
    [artifactId |-> artifactId, name |-> "github_raw_data",
     parts |-> << [kind |-> "data", data |-> data] >>]

\* str(e) for the exceptions post catches
ExcText(e) ==
    CASE e = "JSONDecodeError" -> "Expecting value: line 1 column 1 (char 0)"
      [] e = "AttributeError"  -> "object has no attribute"
      [] e = "TypeError"       -> "object is not iterable"
      [] OTHER                 -> ""

(***************************************************************************)
(* The state of one request.                                               *)
(***************************************************************************)
VARIABLES
    GEMINI_API_KEY,  \* the module global read at import
    pc,              \* where post is
    request,         \* the request body being served
    bound,           \* the locals of post that are assigned
    rpc_id,          \* local rpc_id
    user_text,       \* local user_text
    github_data,     \* local github_data
    analysis_text,   \* local analysis_text
    exc,             \* the exception being handled or propagated
    minted,          \* how many uuid4 values were minted
    response,        \* the JsonResponse returned
    trace            \* calls, outbound HTTP requests and returns, in order

vars == << GEMINI_API_KEY, pc, request, bound, rpc_id, user_text, github_data,
           analysis_text, exc, minted, response, trace >>

NoRequest == Req("none", Absent, "absent", Absent, "absent", Absent, "absent", <<>>)

Event(op, username, data) == [op |-> op, username |-> username, data |-> data]

Init ==
    /\ GEMINI_API_KEY \in ApiKeys
    /\ pc = "idle"
    /\ request = NoRequest
    /\ bound = {}
    /\ rpc_id = PyNone
    /\ user_text = <<>>
    /\ github_data = EmptyDict
    /\ analysis_text = <<>>
    /\ exc = NoExc
    /\ minted = 0
    /\ response = NoResponse
    /\ trace = <<>>

\* lines 111-125: rpc_id = None, json.loads, the .get chain, the loop
post_parse(req) ==
    /\ request' = req
    /\ LET r == TryParse(req) IN
        /\ bound' = r.bound
        /\ exc' = r.exc
        /\ user_text' = r.user_text
        /\ pc' = IF r.exc = NoExc THEN "strip_gbollybambam" ELSE "except"
    /\ rpc_id' = IF req.body # "object" THEN PyNone
                 ELSE IF req.id # Absent THEN req.id ELSE Uuid(1)
    /\ minted' = IF req.body = "object" THEN 1 ELSE 0
    /\ UNCHANGED << GEMINI_API_KEY, github_data, analysis_text, response, trace >>

\* lines 127-128
post_strip_gbollybambam ==
    /\ pc = "strip_gbollybambam"
    /\ user_text' = StripPrefix(user_text, PREFIX_GBOLLYBAMBAM)
    /\ pc' = "strip_devanalyst"
    /\ UNCHANGED << GEMINI_API_KEY, request, bound, rpc_id, github_data,
                    analysis_text, exc, minted, response, trace >>

\* lines 129-130
post_strip_devanalyst ==
    /\ pc = "strip_devanalyst"
    /\ user_text' = StripPrefix(user_text, PREFIX_DEVANALYST)
    /\ pc' = "dispatch"
    /\ UNCHANGED << GEMINI_API_KEY, request, bound, rpc_id, github_data,
                    analysis_text, exc, minted, response, trace >>

\* lines 134-141: the two branches that call nothing, or on to line 142
post_dispatch ==
    /\ pc = "dispatch"
    /\ LET branch == Dispatch(user_text) IN
        /\ pc' = IF branch = "fetch" THEN "get_github_data" ELSE "assemble"
        /\ analysis_text' = IF branch = "invalid" THEN VALIDATION_ERROR ELSE <<>>
    /\ github_data' = EmptyDict
    /\ UNCHANGED << GEMINI_API_KEY, request, bound, rpc_id, user_text, exc, minted,
                    response, trace >>

\* a variant of get_github_data that asks a second time after a failure
get_github_data_retrying ==
    /\ pc = "get_github_data"
    /\ \E first \in GithubResponses, second \in GithubResponses :
        LET answer == IF first.kind = "ok" THEN first ELSE second
            result == GithubResult(user_text, answer)
            again  == IF first.kind = "ok" THEN <<>>
                      ELSE << Event("GET api.github.com", user_text, EmptyDict) >>
        IN
        /\ github_data' = result
        /\ trace' = trace \o << Event("call get_github_data", user_text, EmptyDict),
                                Event("GET api.github.com", user_text, EmptyDict) >>
                         \o again
                         \o << Event("return get_github_data", user_text, result) >>
    /\ pc' = "get_gemini_analysis"
    /\ UNCHANGED << GEMINI_API_KEY, request, bound, rpc_id, user_text,
                    analysis_text, exc, minted, response >>

\* line 142 and lines 40-66
get_github_data ==
    /\ pc = "get_github_data"
    /\ \E answer \in GithubResponses :
        LET result == GithubResult(user_text, answer) IN
        /\ github_data' = result
        /\ trace' = trace \o << Event("call get_github_data", user_text, EmptyDict),
                                Event("GET api.github.com", user_text, EmptyDict),
                                Event("return get_github_data", user_text, result) >>
    /\ pc' = "get_gemini_analysis"
    /\ UNCHANGED << GEMINI_API_KEY, request, bound, rpc_id, user_text,
                    analysis_text, exc, minted, response >>

\* line 143 and lines 68-104
get_gemini_analysis ==
    /\ pc = "get_gemini_analysis"
    /\ IF KeyMissing(GEMINI_API_KEY)
       THEN /\ analysis_text' = MISCONFIGURED
            /\ trace' = trace \o
                 << Event("call get_gemini_analysis", user_text, github_data),
                    Event("return get_gemini_analysis", user_text, github_data) >>
            /\ pc' = "assemble"
            /\ exc' = exc
       ELSE \E answer \in GeminiResponses(user_text, github_data) :
            LET r == GeminiResult(answer) IN
            /\ analysis_text' = r.text
            /\ exc' = r.exc
            /\ trace' = trace \o
                 << Event("call get_gemini_analysis", user_text, github_data),
                    Event("POST generativelanguage.googleapis.com", user_text, github_data),
                    Event(IF r.exc = NoExc THEN "return get_gemini_analysis"
                          ELSE "raise get_gemini_analysis", user_text, github_data) >>
            /\ pc' = IF r.exc = NoExc THEN "assemble" ELSE "except"
    /\ UNCHANGED << GEMINI_API_KEY, request, bound, rpc_id, user_text,
                    github_data, minted, response >>

\* message.get('taskId', str(uuid.uuid4())), lines 146 and 171
TaskIdOf(req, fresh) == IF req.taskId # Absent THEN req.taskId ELSE fresh

\* a variant of ContextIdOf that always groups by the task
ContextIdOf_AlwaysTask(req, task_id) == task_id

\* params.get('contextId', task_id), lines 147 and 173
ContextIdOf(req, task_id) == IF req.contextId # Absent THEN req.contextId ELSE task_id

\* lines 146-161
post_assemble ==
    /\ pc = "assemble"
    /\ LET task_id    == TaskIdOf(request, Uuid(minted + 1))
           context_id == ContextIdOf(request, task_id)
           message    == AgentMessage(analysis_text, Uuid(minted + 2), task_id)
           artifacts  == << Artifact(Uuid(minted + 3), github_data) >>
       IN  response' = [status |-> 200,
                        body |-> Envelope(rpc_id, task_id, context_id, message, artifacts)]
    /\ minted' = minted + 3
    /\ pc' = "returned"
    /\ UNCHANGED << GEMINI_API_KEY, request, bound, rpc_id, user_text,
                    github_data, analysis_text, exc, trace >>

\* lines 170-173: does the recovery of task_id / context_id raise
RecoveryRaises(req, locals) ==
    \/ "message" \in locals /\ MessageTruthy(req) /\ ~MessageIsDict(req)
    \/ "params" \in locals /\ ParamsTruthy(req) /\ ~ParamsIsDict(req)

\* lines 163-187
post_except ==
    /\ pc = "except"
    /\ IF RecoveryRaises(request, bound)
       THEN /\ exc' = "AttributeError"
            /\ pc' = "raised"
            /\ minted' = minted + 2
            /\ UNCHANGED response
       ELSE LET useMessage == "message" \in bound /\ MessageTruthy(request)
                useParams  == "params" \in bound /\ ParamsTruthy(request)
                n          == IF useMessage THEN minted + 3 ELSE minted + 2
                task_id    == IF useMessage
                              THEN TaskIdOf(request, Uuid(minted + 3))
                              ELSE Uuid(minted + 1)
                context_id == IF useParams
                              THEN ContextIdOf(request, task_id)
                              ELSE Uuid(minted + 2)
                error_text == << CRITICAL_PREFIX, ExcText(exc) >>
                message    == AgentMessage(error_text, Uuid(n + 1), task_id)
                rpc        == IF rpc_id # PyNone THEN rpc_id ELSE Uuid(n + 2)
            IN  /\ response' = [status |-> 200,
                                body |-> Envelope(rpc, task_id, context_id, message, <<>>)]
                /\ minted' = IF rpc_id # PyNone THEN n + 1 ELSE n + 2
                /\ pc' = "returned"
                /\ exc' = exc
    /\ UNCHANGED << GEMINI_API_KEY, request, bound, rpc_id, user_text,
                    github_data, analysis_text, trace >>

\* the framework hands a request body to post
post ==
    /\ pc = "idle"
    /\ \E req \in Requests : post_parse(req)

Next ==
    \/ post
    \/ post_strip_gbollybambam
    \/ post_strip_devanalyst
    \/ post_dispatch
    \/ get_github_data
    \/ get_gemini_analysis
    \/ post_assemble
    \/ post_except

Spec == Init /\ [][Next]_vars

(***************************************************************************)
(* Properties.                                                             *)
(***************************************************************************)
Result      == response.body.result
MessageText == Result.status.message.parts[1].text
Ops(op)     == {i \in DOMAIN trace : trace[i].op = op}
\* the identifiers minted while serving the request
Minted      == {Uuid(i) : i \in 1..minted}
\* post reached line 134 with the command text in user_text
Dispatched  ==
    \/ pc \in {"get_github_data", "get_gemini_analysis", "assemble"}
    \/ pc \in {"except", "returned", "raised"} /\ (exc = NoExc \/ trace # <<>>)
\* post returned from line 161
Succeeded   == pc = "returned" /\ Len(Result.artifacts) = 1

WellFormed(body) ==
    /\ body.jsonrpc = "2.0"
    /\ body.id # PyNone
    /\ body.result.kind = "task"
    /\ body.result.status.state = "completed"
    /\ Len(body.result.status.message.parts) = 1
    /\ body.result.history = <<>>

\* C1: whatever the request body, post returns a well-formed envelope with
\* HTTP status 200 and no exception leaves post, the except branch's
\* recovery of task_id / context_id included.
C1_NoExceptionEscapes ==
    /\ pc # "raised"
    /\ pc = "returned" => response.status = 200 /\ WellFormed(response.body)

\* C2 as claimed: in the response, result.id echoes params.message.taskId
\* and result.contextId echoes params.contextId when the request carries
\* them, and each is freshly minted when the request does not carry it.
C2_EchoOrFresh ==
    pc = "returned" =>
        /\ request.taskId # Absent => Result.id = request.taskId
        /\ request.contextId # Absent => Result.contextId = request.contextId
        /\ request.taskId = Absent => Result.id \in Minted
        /\ request.contextId = Absent => Result.contextId \in Minted

\* C2 as amended: a request that carries a taskId is always answered; in
\* every response result.id echoes the taskId or is freshly minted,
\* result.contextId echoes the contextId, and without a contextId it falls
\* back to the carried taskId, being freshly minted only when the taskId is
\* absent as well.
C2_EchoOrFallback ==
    /\ request.taskId # Absent => pc # "raised"
    /\ pc = "returned" =>
        /\ request.taskId # Absent => Result.id = request.taskId
        /\ request.contextId # Absent => Result.contextId = request.contextId
        /\ request.taskId = Absent => Result.id \in Minted
        /\ request.contextId = Absent /\ request.taskId # Absent =>
              Result.contextId = request.taskId
        /\ request.contextId = Absent /\ request.taskId = Absent =>
              Result.contextId \in Minted

\* C2 witness: a taskId without a contextId, answered on the except path
C2_Witness ==
    /\ pc = "returned"
    /\ exc # NoExc
    /\ request.taskId = "t1"
    /\ request.contextId = Absent
    /\ Result.contextId = "t1"

\* a part the loop takes the command text from
Qualifies(part) ==
    part.shape = "object" /\ part.kind = "text" /\ part.text.t = "str" /\ part.text.s # ""
\* the trimmed, lower-cased text of the last qualifying part, "" without one
LastQualifyingText(parts) ==
    LET q == {i \in DOMAIN parts : Qualifies(parts[i])} IN
    IF q = {} THEN <<>>
    ELSE Lower(Strip(Chars(parts[CHOOSE i \in q : \A j \in q : j <= i].text.s)))

\* C3: the command text comes from the last part with kind "text" and a
\* non-empty text; earlier text parts and parts of another kind or without
\* text do not influence it, and without a qualifying part it is empty.
C3_LastTextPartWins ==
    LET last == LastQualifyingText(PartsOf(request)) IN
    /\ pc = "strip_gbollybambam" => user_text = last
    /\ pc = "dispatch" =>
          user_text = StripPrefix(StripPrefix(last, PREFIX_GBOLLYBAMBAM), PREFIX_DEVANALYST)

\* C3 witness: two qualifying parts with different texts, the second taken
C3_Witness ==
    /\ pc = "dispatch"
    /\ Len(PartsOf(request)) >= 2
    /\ Qualifies(request.partList[1])
    /\ Qualifies(request.partList[2])
    /\ request.partList[1].text.s = "Octocat"
    /\ request.partList[2].text.s = " help "
    /\ user_text = <<"h","e","l","p">>

\* the text without its leading prefix p, other occurrences of p kept
StripOnce(s, p) == IF StartsWith(s, p) THEN Strip(SubSeq(s, Len(p) + 1, Len(s))) ELSE s

\* C4: each prefix statement removes the leading prefix once and leaves any
\* later occurrence of the token in place; a text that does not start with
\* the prefix is left unchanged.  (The trim that follows the removal is
\* granted to the statement.)
C4_PrefixRemovedOnce ==
    [][ /\ pc = "strip_gbollybambam" =>
             user_text' = StripOnce(user_text, PREFIX_GBOLLYBAMBAM)
        /\ pc = "strip_devanalyst" =>
             user_text' = StripOnce(user_text, PREFIX_DEVANALYST) ]_vars

\* C5: an empty command text yields the success envelope with the fixed
\* validation-error text and {} as the artifact's data, and neither
\* get_github_data nor get_gemini_analysis is called.
C5_EmptyTextIsValidationError ==
    Dispatched /\ user_text = <<>> =>
        /\ trace = <<>>
        /\ pc \in {"assemble", "returned"}
        /\ analysis_text = VALIDATION_ERROR
        /\ github_data = EmptyDict
        /\ pc = "returned" =>
              /\ response.status = 200
              /\ MessageText = VALIDATION_ERROR
              /\ Len(Result.artifacts) = 1
              /\ Result.artifacts[1].name = "github_raw_data"
              /\ Result.artifacts[1].parts[1].data = EmptyDict

\* C5 witness: a text part of blanks only, answered
C5_Witness ==
    /\ pc = "returned"
    /\ Dispatched
    /\ user_text = <<>>
    /\ Len(PartsOf(request)) >= 1
    /\ Qualifies(request.partList[Len(request.partList)])

\* C6: "help" and "hi" yield an empty message text and {} as the artifact's
\* data without any outbound call; every other non-empty command text
\* takes the fetch-and-analyse branch.
C6_GreetingIsSilent ==
    Dispatched =>
        /\ user_text \in {<<"h","e","l","p">>, <<"h","i">>} =>
              /\ trace = <<>>
              /\ pc \in {"assemble", "returned"}
              /\ analysis_text = <<>>
              /\ github_data = EmptyDict
              /\ pc = "returned" =>
                    /\ MessageText = <<>>
                    /\ Len(Result.artifacts) = 1
                    /\ Result.artifacts[1].parts[1].data = EmptyDict
        /\ user_text \notin {<<"h","e","l","p">>, <<"h","i">>, <<>>} =>
              \/ pc = "get_github_data"
              \/ trace # <<>> /\ trace[1].op = "call get_github_data"

\* C6 witness: "hi" left by the two prefix statements, answered
C6_Witness ==
    /\ pc = "returned"
    /\ Dispatched
    /\ user_text = <<"h","i">>
    /\ MessageText = <<>>

\* C7: no exception leaves get_gemini_analysis, whatever the outbound call
\* does, and what it returns is a string.
C7_AlwaysReturnsString ==
    /\ Ops("raise get_gemini_analysis") = {}
    /\ Ops("return get_gemini_analysis") # {} => analysis_text \in Seq(STRING)

\* C8: after a failed fetch the analysis text of the response contains the
\* failure description.
C8_FetchFailureIsReported ==
    Succeeded /\ github_data.error # "" =>
        Contains(MessageText, github_data.error)

\* C9: without GEMINI_API_KEY get_gemini_analysis returns the fixed
\* misconfiguration string, whatever the username and data, and posts
\* nothing to the language-model endpoint.
C9_NoKeyNoCall ==
    GEMINI_API_KEY \in {PyNone, ""} =>
        /\ Ops("POST generativelanguage.googleapis.com") = {}
        /\ Ops("raise get_gemini_analysis") = {}
        /\ Ops("return get_gemini_analysis") # {} => analysis_text = MISCONFIGURED

\* C9 witness: the key is the empty string and the function has returned
\* for a repository list
C9_Witness ==
    /\ GEMINI_API_KEY = ""
    /\ pc = "assemble"
    /\ Ops("return get_gemini_analysis") # {}
    /\ github_data.kind = "list"
    /\ Len(github_data.repos) = 2

====
